---- MODULE Spec2Model ----
(***************************************************************************)
(* The buck launcher (programs/buck_tool.py): BuckTool.launch_buck,        *)
(* launch_buckd, kill_buckd and _is_buckd_running, run by one launcher at  *)
(* a time against the shared state of one project root (the daemon socket  *)
(* file, the version stamp, the daemon processes).  The launcher is a      *)
(* program counter over the source lines that read or write shared state;  *)
(* the daemon processes move on their own between any two of its steps.    *)
(***************************************************************************)
EXTENDS Integers, Sequences, FiniteSets

\* ------------------------------------------------------------------ bounds
\* Daemon process slots of the project root (live or being polled).
MaxDaemons == 2
\* Busy replies (exit code 2) one invocation may receive.
MaxBusy == 2
\* Iterations of the socket wait modelled (range(0, 300) in the source).
MaxSocketPolls == 2
\* Tokens after argv[0] in a command line.
MaxArgs == 3
\* Clock ticks in one second of time.time().
TicksPerSecond == 1
\* Largest advance of time.time(), in ticks, between two busy replies.
MaxClockStep == 2

\* ------------------------------------------------------------------ values
None == -1
Versions == {"v1", "v2"}
NoVersion == "none"
DashTokens == {"--help", "--version"}
Tokens == DashTokens \cup {"clean", "build"}
NoCommand == "<none>"
BusyCode == 2
ReplyCodes == {0, 1, BusyCode}
ExitCodes == {0, 17}
DaemonIds == 1..MaxDaemons
NoDaemon == [status |-> "none", ver |-> NoVersion, code |-> None]

\* ------------------------------------------------------------ command line
\* (arg[:1]) == "-"
StartsWithDash(arg) == arg \in DashTokens

RECURSIVE ParseArgs(_, _, _)
ParseArgs(args, k, acc) ==
    IF k > Len(args) THEN acc
    ELSE LET arg == args[k] IN
         IF acc.command # NoCommand
         THEN ParseArgs(args, k + 1,
                [acc EXCEPT !.command_options = Append(@, arg)])
         ELSE IF StartsWithDash(arg)
         THEN ParseArgs(args, k + 1,
                [acc EXCEPT !.buck_options = Append(@, arg)])
         ELSE ParseArgs(args, k + 1, [acc EXCEPT !.command = arg])

\* lines 70-72
NoArgs == [buck_options |-> <<>>, command |-> NoCommand,
           command_options |-> <<>>]

CommandLineArgs(cmdline) ==
    ParseArgs(SubSeq(cmdline, 2, Len(cmdline)), 1, NoArgs)

\* Mutant: only a missing command makes a help invocation.
IsHelp_CommandOnly(cla) == cla.command = NoCommand

IsHelp(cla) ==
    \/ cla.command = NoCommand
    \/ \E k \in 1..Len(cla.command_options) : cla.command_options[k] = "--help"

Argvs ==
    UNION { { <<"buck">> \o s : s \in [1..n -> Tokens] } : n \in 0..MaxArgs }

\* What launch_buck reads of self._command_line, for every command line.
Invocations ==
    { [command |-> CommandLineArgs(argv).command,
       is_help |-> IsHelp(CommandLineArgs(argv))] : argv \in Argvs }

\* ------------------------------------------------------------------- state
VARIABLES
    sockFile,        \* the socket file .buckd/sock exists
    stamp,           \* contents of the version-stamp file, NoVersion if absent
    tmp_dir,         \* the long-lived buckd temp directory exists
    daemons,         \* daemon processes: slot -> [status, ver, code]
    pc,              \* position of the launcher
    ret,             \* where the running subroutine returns to
    op,              \* the operation the caller invoked
    command,         \* CommandLineArgs.command
    is_help,         \* CommandLineArgs.is_help()
    use_buckd,       \* not NO_BUCKD
    has_watchman,    \* which('watchman')
    uid,             \* _get_buck_version_uid()
    running_version, \* launch_buck's local, line 147
    running,         \* last result of _is_buckd_running
    proc,            \* slot of the process launch_buckd spawned, 0 if none
    poll_i,          \* socket wait loop counter
    launch_rc,       \* last return value of launch_buckd, None if none
    exit_code,       \* launch_buck's local exit_code
    conn,            \* daemon the command connection is open to, 0 if closed
    build_id,        \* env['BUCK_BUILD_ID']
    result,          \* value returned to the caller, None if none
    raised,          \* exception that ended the operation, "" if none
    direct,          \* the direct subprocess was run
    last_diagnostic_time, \* launch_buck's local, in ticks
    hist,            \* what the operation did so far (counters, sent ids)
    sys_argv,        \* the command line handed to CommandLineArgs
    command_line     \* the CommandLineArgs object built from sys_argv

vars == <<sockFile, stamp, tmp_dir, daemons, pc, ret, op, command, is_help,
          use_buckd, has_watchman, uid, running_version, running, proc,
          poll_i, launch_rc, exit_code, conn, build_id, result, raised,
          direct, last_diagnostic_time, hist, sys_argv, command_line>>

shared == <<sockFile, stamp, tmp_dir, daemons>>
parsed == <<sys_argv, command_line>>
inputs == <<op, command, is_help, use_buckd, has_watchman, uid, parsed>>
locals == <<running_version, running, proc, poll_i, launch_rc, exit_code,
            conn, build_id, result, raised, direct, last_diagnostic_time>>

\* History of the running operation: calls made, connections opened, ids sent.
NoHist == [kills |-> 0, kills_done |-> 0, sock_after_kill |-> FALSE,
           launches |-> 0, launch_uid |-> NoVersion,
           probes |-> 0, conns |-> 0, overlap |-> FALSE,
           busy |-> 0, mints |-> 0, sent_ids |-> <<>>,
           sent_to |-> 0, last_reply |-> None, stale0 |-> FALSE,
           ng_site |-> "", ng_out |-> "", probe_sock |-> FALSE,
           kill_absent |-> FALSE, stamp_after_kill |-> NoVersion,
           busy_times |-> <<>>, diag_times |-> <<>>, slept |-> FALSE]

Alive(d) == daemons[d].status \in {"starting", "listening", "orphan"}
Listeners == { d \in DaemonIds : daemons[d].status = "listening" }

\* The locals of an operation that has not run a step yet.
FreshLocals ==
    /\ ret = "done"
    /\ running_version = NoVersion
    /\ running = FALSE
    /\ proc = 0
    /\ poll_i = 0
    /\ launch_rc = None
    /\ exit_code = None
    /\ conn = 0
    /\ build_id = 0
    /\ result = None
    /\ raised = ""
    /\ direct = FALSE
    /\ last_diagnostic_time = 0

\* No operation was called yet: nothing of the daemon exists.
Init ==
    /\ sockFile = FALSE
    /\ stamp = NoVersion
    /\ tmp_dir = FALSE
    /\ daemons = [d \in DaemonIds |-> NoDaemon]
    /\ pc = "idle"
    /\ op = "none"
    /\ command = NoCommand
    /\ is_help = TRUE
    /\ use_buckd = TRUE
    /\ has_watchman = TRUE
    /\ uid = "v1"
    /\ FreshLocals
    /\ hist = NoHist
    /\ sys_argv = <<"buck">>
    /\ command_line = NoArgs

\* ------------------------------------------------------------ environment
\* Outcome of opening a NailgunConnection to the socket file.
ConnectOutcomes ==
    IF sockFile /\ Listeners # {} THEN {"ok"} ELSE {"CONNECT_FAILED"}

\* Outcomes of one request sent over a connection open to daemon d: a
\* daemon that has exited since the connect breaks the connection.
SendOutcomes(d) ==
    IF Alive(d)
    THEN {"ok", "CONNECTION_BROKEN", "UNEXPECTED_CHUNKTYPE", "OTHER"}
    ELSE {"CONNECTION_BROKEN"}

\* The exit status of a process is kept only for the Popen handle polling it.
Polled(d) == d = proc /\ pc \in {"B327", "B330", "B334"}

Exited(d, c) ==
    IF Polled(d) THEN [status |-> "dead", ver |-> daemons[d].ver, code |-> c]
    ELSE NoDaemon

\* Removing the socket file leaves a daemon bound to it without a path.
Unbound(ds) ==
    [d \in DaemonIds |->
        IF ds[d].status = "listening" THEN [ds[d] EXCEPT !.status = "orphan"]
        ELSE ds[d]]

\* A starting daemon creates its listening socket.
DaemonBind ==
    \E d \in DaemonIds :
        /\ daemons[d].status = "starting"
        /\ ~sockFile
        /\ sockFile' = TRUE
        /\ daemons' = [daemons EXCEPT ![d].status = "listening"]
        /\ UNCHANGED <<stamp, tmp_dir, pc, ret, inputs, locals, hist>>

\* A daemon process exits on its own; a socket file it made stays behind.
DaemonExit ==
    \E d \in DaemonIds, c \in ExitCodes :
        /\ Alive(d)
        /\ Polled(d) \/ c = 0
        /\ daemons' = [daemons EXCEPT ![d] = Exited(d, c)]
        /\ UNCHANGED <<sockFile, stamp, tmp_dir, pc, ret, inputs, locals, hist>>

\* ---------------------------------------------------------------- callers
Reaped == [d \in DaemonIds |->
             IF daemons[d].status = "dead" THEN NoDaemon ELSE daemons[d]]

\* No operation is running and the last one's result was taken.
Idle == pc = "idle"

ResetLocals(h) ==
    /\ running_version' = NoVersion
    /\ running' = FALSE
    /\ proc' = 0
    /\ poll_i' = 0
    /\ launch_rc' = None
    /\ exit_code' = None
    /\ conn' = 0
    /\ build_id' = 0
    /\ result' = None
    /\ raised' = ""
    /\ direct' = FALSE
    /\ last_diagnostic_time' = 0
    /\ hist' = h
    /\ daemons' = Reaped
    /\ UNCHANGED <<sockFile, stamp, tmp_dir, parsed>>

\* The operation returned or raised: the caller has the result and the
\* launcher process ends, its locals with it.
CallerDone ==
    /\ pc \in {"done", "raised"}
    /\ pc' = "idle"
    /\ ret' = "done"
    /\ op' = "none"
    /\ command' = NoCommand
    /\ is_help' = TRUE
    /\ use_buckd' = TRUE
    /\ has_watchman' = TRUE
    /\ uid' = "v1"
    /\ ResetLocals(NoHist)

\* The project's one live daemon listens on the socket, is recorded in the
\* stamp, and was built at another version than v.
StaleDaemonOnly(v) ==
    \E d \in DaemonIds :
        /\ daemons[d].status = "listening"
        /\ daemons[d].ver = stamp
        /\ stamp # v
        /\ \A e \in DaemonIds \ {d} : ~Alive(e)

\* A caller runs launch_buck(build_id) with sys.argv = argv.
StartLaunchBuck ==
    /\ Idle
    /\ \E d \in DaemonIds : Reaped[d].status = "none"
    /\ \E inv \in Invocations, ub \in BOOLEAN, hw \in BOOLEAN, v \in Versions :
        /\ command' = inv.command
        /\ is_help' = inv.is_help
        /\ use_buckd' = ub
        /\ has_watchman' = hw
        /\ uid' = v
    /\ op' = "launch_buck"
    /\ pc' = "L138"
    /\ ret' = "done"
    /\ ResetLocals([NoHist EXCEPT !.stale0 = StaleDaemonOnly(uid')])

\* A caller runs launch_buckd().
StartLaunchBuckd ==
    /\ Idle
    /\ \E d \in DaemonIds : Reaped[d].status = "none"
    /\ \E hw \in BOOLEAN, v \in Versions :
        /\ has_watchman' = hw
        /\ uid' = v
    /\ command' = NoCommand
    /\ is_help' = TRUE
    /\ use_buckd' = TRUE
    /\ op' = "launch_buckd"
    /\ pc' = "B251"
    /\ ret' = "done"
    /\ ResetLocals([NoHist EXCEPT !.launches = 1, !.launch_uid = uid'])

\* A caller runs kill_buckd().
StartKillBuckd ==
    /\ Idle
    /\ command' = NoCommand
    /\ is_help' = TRUE
    /\ use_buckd' = TRUE
    /\ has_watchman' = TRUE
    /\ uid' = "v1"
    /\ op' = "kill_buckd"
    /\ pc' = "K345"
    /\ ret' = "done"
    /\ ResetLocals([NoHist EXCEPT !.kills = 1])

\* -------------------------------------------------------------- kill_buckd
\* line 345: os.path.exists(buckd_socket_path)
KillCheckSocket ==
    /\ pc = "K345"
    /\ pc' = IF sockFile THEN "K348" ELSE "K358"
    /\ hist' = [hist EXCEPT !.ng_site = "kill", !.ng_out = "",
                            !.kill_absent = (Listeners = {})]
    /\ UNCHANGED <<shared, ret, inputs, locals>>

\* Mutant: every NailgunException is tolerated.
KillTolerates_All(e) == TRUE

\* Mutant: a refused connection is not tolerated.
KillTolerates_NotRefused(e) ==
    e \in {"CONNECTION_BROKEN", "UNEXPECTED_CHUNKTYPE"}

\* line 351: the NailgunException codes kill_buckd tolerates
KillTolerates(e) ==
    e \in {"CONNECT_FAILED", "CONNECTION_BROKEN", "UNEXPECTED_CHUNKTYPE"}

\* line 348 (and 350-356 when it fails): the NailgunConnection is opened
KillConnect ==
    /\ pc = "K348"
    /\ \E o \in ConnectOutcomes :
        IF o = "ok"
        THEN /\ \E d \in Listeners : conn' = d
             /\ pc' = "K349"
             /\ UNCHANGED <<raised, hist>>
        ELSE /\ conn' = conn
             /\ hist' = [hist EXCEPT !.ng_out = o]
             /\ IF KillTolerates(o)
                THEN pc' = "K358" /\ raised' = raised
                ELSE pc' = "raised" /\ raised' = "BuckToolException"
    /\ UNCHANGED <<shared, ret, inputs, running_version, running, proc,
                   poll_i, launch_rc, exit_code, build_id, result, direct,
                   last_diagnostic_time>>

\* lines 349-356: send ng-stop and wait for the reply; the daemon that
\* acknowledges it exits; the connection is closed
KillSendStop ==
    /\ pc = "K349"
    /\ \E o \in SendOutcomes(conn) :
        /\ daemons' = IF o = "ok"
                      THEN [daemons EXCEPT ![conn] = Exited(conn, 0)]
                      ELSE daemons
        /\ IF o = "ok" \/ KillTolerates(o)
           THEN pc' = "K358" /\ raised' = raised
           ELSE pc' = "raised" /\ raised' = "BuckToolException"
        /\ hist' = [hist EXCEPT !.ng_out = o]
    /\ conn' = 0
    /\ UNCHANGED <<sockFile, stamp, tmp_dir, ret, inputs, running_version,
                   running, proc, poll_i, launch_rc, exit_code, build_id,
                   result, direct, last_diagnostic_time>>

\* BuckProject.clean_up_buckd: the daemon directory (socket file and version
\* stamp) is removed.
clean_up_buckd ==
    /\ sockFile' = FALSE
    /\ stamp' = NoVersion
    /\ daemons' = Unbound(daemons)
    /\ UNCHANGED tmp_dir

\* line 358, and the return
KillCleanUp ==
    /\ pc = "K358"
    /\ clean_up_buckd
    /\ hist' = [hist EXCEPT !.kills_done = @ + 1,
                            !.sock_after_kill = sockFile',
                            !.stamp_after_kill = stamp']
    /\ pc' = ret
    /\ UNCHANGED <<ret, inputs, locals>>

\* ------------------------------------------------------- _is_buckd_running
\* lines 378-379
ProbeCheckSocket ==
    /\ pc = "R378"
    /\ IF sockFile
       THEN pc' = "R382" /\ running' = running
       ELSE pc' = ret /\ running' = FALSE
    /\ hist' = [hist EXCEPT !.ng_site = "probe", !.ng_out = "",
                            !.probe_sock = sockFile]
    /\ UNCHANGED <<shared, ret, inputs, running_version, proc, poll_i,
                   launch_rc, exit_code, conn, build_id, result, raised,
                   direct, last_diagnostic_time>>

\* Mutant: the probe tolerates no error.
ProbeTolerates_None(e) == FALSE

\* Mutant: the probe tolerates what kill_buckd tolerates.
ProbeTolerates_LikeKill(e) ==
    e \in {"CONNECT_FAILED", "CONNECTION_BROKEN", "UNEXPECTED_CHUNKTYPE"}

\* line 390: the NailgunException code that means "not running"
ProbeTolerates(e) == e = "CONNECT_FAILED"

\* lines 382-387 (and 389-393 when it fails): the NailgunConnection is
\* opened
ProbeConnect ==
    /\ pc = "R382"
    /\ \E o \in ConnectOutcomes :
        IF o = "ok"
        THEN /\ \E d \in Listeners : conn' = d
             /\ pc' = "R388"
             /\ hist' = [hist EXCEPT !.probes = @ + 1]
             /\ UNCHANGED <<running, raised>>
        ELSE /\ conn' = conn
             /\ hist' = [hist EXCEPT !.probes = @ + 1, !.ng_out = o]
             /\ IF ProbeTolerates(o)
                THEN pc' = ret /\ running' = FALSE /\ raised' = raised
                ELSE /\ pc' = "raised"
                     /\ running' = running
                     /\ raised' = "NailgunException"
    /\ UNCHANGED <<shared, ret, inputs, running_version, proc, poll_i,
                   launch_rc, exit_code, build_id, result, direct,
                   last_diagnostic_time>>

\* lines 388-394: send ng-stats and wait for the reply; the connection is
\* closed
ProbeSendStats ==
    /\ pc = "R388"
    /\ \E o \in SendOutcomes(conn) :
        /\ hist' = [hist EXCEPT !.ng_out = o]
        /\ IF o = "ok" THEN pc' = ret /\ running' = TRUE /\ raised' = raised
           ELSE IF ProbeTolerates(o)
           THEN pc' = ret /\ running' = FALSE /\ raised' = raised
           ELSE /\ pc' = "raised"
                /\ running' = running
                /\ raised' = "NailgunException"
    /\ conn' = 0
    /\ UNCHANGED <<shared, ret, inputs, running_version, proc, poll_i,
                   launch_rc, exit_code, build_id, result, direct,
                   last_diagnostic_time>>

\* ------------------------------------------------------------ launch_buckd
\* Mutant: the temp directory is created before watchman is looked for.
LaunchSetup_TmpFirst ==
    /\ pc = "B251"
    /\ tmp_dir' = TRUE
    /\ IF has_watchman
       THEN pc' = "B311" /\ raised' = raised
       ELSE pc' = "raised" /\ raised' = "BuckToolException"
    /\ UNCHANGED <<sockFile, stamp, daemons, ret, inputs, running_version,
                   running, proc, poll_i, launch_rc, exit_code, conn, build_id,
                   result, direct, last_diagnostic_time, hist>>

\* lines 251-255: _setup_watchman_watch raises without watchman; then the
\* temp directory is created.
LaunchSetup ==
    /\ pc = "B251"
    /\ IF has_watchman
       THEN pc' = "B311" /\ tmp_dir' = TRUE /\ raised' = raised
       ELSE pc' = "raised" /\ tmp_dir' = tmp_dir /\ raised' = "BuckToolException"
    /\ UNCHANGED <<sockFile, stamp, daemons, ret, inputs, running_version,
                   running, proc, poll_i, launch_rc, exit_code, conn, build_id,
                   result, direct, last_diagnostic_time, hist>>

\* lines 310-317: os.unlink(buck_socket_path); ENOENT is ignored, any other
\* OSError (the file cannot be removed, or a component of its path is not a
\* directory or not searchable) is raised again
LaunchUnlink ==
    /\ pc = "B311"
    /\ \/ /\ sockFile' = FALSE
          /\ daemons' = Unbound(daemons)
          /\ pc' = "B319"
          /\ raised' = raised
       \/ /\ pc' = "raised"
          /\ raised' = "OSError"
          /\ UNCHANGED <<sockFile, daemons>>
    /\ UNCHANGED <<stamp, tmp_dir, ret, inputs, running_version, running,
                   proc, poll_i, launch_rc, exit_code, conn, build_id, result,
                   direct, last_diagnostic_time, hist>>

\* lines 319-325: subprocess.Popen of the daemon; it raises OSError when
\* which("java") finds no executable, and then no process exists
LaunchSpawn ==
    /\ pc = "B319"
    /\ \/ /\ \E d \in DaemonIds :
              /\ daemons[d].status = "none"
              /\ \A e \in DaemonIds : daemons[e].status = "none" => d <= e
              /\ daemons' = [daemons EXCEPT
                               ![d] = [status |-> "starting", ver |-> uid,
                                       code |-> None]]
              /\ proc' = d
          /\ pc' = "B327"
          /\ raised' = raised
       \/ /\ pc' = "raised"
          /\ raised' = "OSError"
          /\ UNCHANGED <<daemons, proc>>
    /\ UNCHANGED <<sockFile, stamp, tmp_dir, ret, inputs, running_version,
                   running, poll_i, launch_rc, exit_code, conn, build_id,
                   result, direct, last_diagnostic_time, hist>>

\* Mutant: the stamp is not written after the spawn.
LaunchSaveVersion_Skipped ==
    /\ pc = "B327"
    /\ poll_i' = 0
    /\ pc' = "B330"
    /\ UNCHANGED <<shared, ret, inputs, running_version, running, proc,
                   launch_rc, exit_code, conn, build_id, result, raised,
                   direct, last_diagnostic_time, hist>>

\* line 327: save_buckd_version(buck_version_uid)
LaunchSaveVersion ==
    /\ pc = "B327"
    /\ stamp' = uid
    /\ poll_i' = 0
    /\ pc' = "B330"
    /\ UNCHANGED <<sockFile, tmp_dir, daemons, ret, inputs, running_version,
                   running, proc, launch_rc, exit_code, conn, build_id, result,
                   raised, direct, last_diagnostic_time, hist>>

\* line 330: range(0, 300)
SocketWaitAttempts == 300

\* Mutant: every iteration sleeps.
Sleeps_Always(exists) == TRUE

\* line 331: time.sleep(0.01) if not os.path.exists(buck_socket_path)
Sleeps(exists) == ~exists

\* lines 330-332: one iteration of a socket wait of n iterations, or its end
SocketWait(n) ==
    /\ pc = "B330"
    /\ IF poll_i < n
       THEN /\ poll_i' = poll_i + 1
            /\ pc' = pc
            /\ hist' = [hist EXCEPT !.slept = Sleeps(sockFile)]
       ELSE /\ poll_i' = poll_i
            /\ pc' = "B334"
            /\ hist' = hist
    /\ UNCHANGED <<shared, ret, inputs, running_version, running, proc,
                   launch_rc, exit_code, conn, build_id, result, raised,
                   direct, last_diagnostic_time>>

\* The socket wait cut down to MaxSocketPolls iterations.
LaunchPollSocket == SocketWait(MaxSocketPolls)

\* The socket wait at its full length.
LaunchPollSocketFull == SocketWait(SocketWaitAttempts)

\* Mutant: the exit status is not looked at.
ReturnCode_AlwaysZero(p) == 0

\* lines 334-340: process.poll() and the return value
ReturnCode(p) == IF p.status = "dead" THEN p.code ELSE 0

LaunchPollProcess ==
    /\ pc = "B334"
    /\ launch_rc' = ReturnCode(daemons[proc])
    /\ result' = IF ret = "done" THEN launch_rc' ELSE result
    /\ pc' = ret
    /\ UNCHANGED <<shared, ret, inputs, running_version, running, proc,
                   poll_i, exit_code, conn, build_id, raised, direct,
                   last_diagnostic_time, hist>>

\* ------------------------------------------------------------- launch_buck
\* Mutant: clean does not kill on its own.
CleanKills_Never(cmd, help) == FALSE

\* Mutant: every clean command kills, a help invocation included.
CleanKills_AnyClean(cmd, help) == cmd = "clean"

\* line 138: a clean command that is not a help invocation kills first
CleanKills(cmd, help) == cmd = "clean" /\ ~help

LaunchBuckClean ==
    /\ pc = "L138"
    /\ IF CleanKills(command, is_help)
       THEN /\ pc' = "K345"
            /\ ret' = "L141"
            /\ hist' = [hist EXCEPT !.kills = @ + 1]
       ELSE /\ pc' = "L141"
            /\ UNCHANGED <<ret, hist>>
    /\ UNCHANGED <<shared, inputs, locals>>

\* lines 144-146: the daemon is reconciled and launched
UsesDaemonSetup(help, ub, hw) == ~help /\ ub /\ hw

\* lines 141-147 (and the notices of lines 154-159)
LaunchBuckReadVersion ==
    /\ pc = "L141"
    /\ IF UsesDaemonSetup(is_help, use_buckd, has_watchman)
       THEN pc' = "L149" /\ running_version' = stamp
       ELSE pc' = "L166" /\ running_version' = running_version
    /\ UNCHANGED <<shared, ret, inputs, running, proc, poll_i, launch_rc,
                   exit_code, conn, build_id, result, raised, direct,
                   last_diagnostic_time, hist>>

\* Mutant: a missing stamp is not taken for a mismatch.
VersionMismatch_KnownOnly(rv, v) == rv # v /\ rv # NoVersion

\* line 149
VersionMismatch(rv, v) == rv # v

\* lines 149-150
LaunchBuckReconcile ==
    /\ pc = "L149"
    /\ IF VersionMismatch(running_version, uid)
       THEN /\ pc' = "K345"
            /\ ret' = "L152"
            /\ hist' = [hist EXCEPT !.kills = @ + 1]
       ELSE /\ pc' = "L152"
            /\ UNCHANGED <<ret, hist>>
    /\ UNCHANGED <<shared, inputs, locals>>

\* line 152: call of _is_buckd_running
LaunchBuckProbe ==
    /\ pc = "L152"
    /\ pc' = "R378"
    /\ ret' = "L153"
    /\ UNCHANGED <<shared, inputs, locals, hist>>

\* lines 152-153: launch_buckd(buck_version_uid) if not running
LaunchBuckLaunch ==
    /\ pc = "L153"
    /\ IF ~running
       THEN /\ pc' = "B251"
            /\ ret' = "L166"
            /\ hist' = [hist EXCEPT !.launches = @ + 1, !.launch_uid = uid]
       ELSE /\ pc' = "L166"
            /\ UNCHANGED <<ret, hist>>
    /\ UNCHANGED <<shared, inputs, locals>>

\* lines 161-166: BUCK_BUILD_ID is set; use_buckd and _is_buckd_running()
LaunchBuckTryDaemon ==
    /\ pc = "L166"
    /\ build_id' = 0
    /\ IF use_buckd
       THEN pc' = "R378" /\ ret' = "L167"
       ELSE pc' = "L192" /\ ret' = ret
    /\ UNCHANGED <<shared, inputs, running_version, running, proc, poll_i,
                   launch_rc, exit_code, conn, result, raised, direct,
                   last_diagnostic_time, hist>>

\* lines 166-170: ... and os.path.exists(buck_socket_path)
LaunchBuckChoosePath ==
    /\ pc = "L167"
    /\ IF running /\ sockFile
       THEN pc' = "L172" /\ exit_code' = BusyCode
       ELSE pc' = "L192" /\ exit_code' = exit_code
    /\ last_diagnostic_time' = 0
    /\ UNCHANGED <<shared, ret, inputs, running_version, running, proc,
                   poll_i, launch_rc, conn, build_id, result, raised, direct,
                   hist>>

\* lines 171-173: while exit_code == 2, open a NailgunConnection
LaunchBuckConnect ==
    /\ pc = "L172"
    /\ exit_code = BusyCode
    /\ IF sockFile /\ Listeners # {}
       THEN /\ \E d \in Listeners : conn' = d
            /\ hist' = [hist EXCEPT !.conns = @ + 1,
                                    !.overlap = @ \/ conn # 0,
                                    !.ng_site = "connect", !.ng_out = "ok"]
            /\ pc' = "L176"
            /\ raised' = raised
       ELSE /\ pc' = "raised"
            /\ raised' = "NailgunException"
            /\ hist' = [hist EXCEPT !.ng_site = "connect",
                                    !.ng_out = "CONNECT_FAILED"]
            /\ UNCHANGED conn
    /\ UNCHANGED <<shared, ret, inputs, running_version, running, proc,
                   poll_i, launch_rc, exit_code, build_id, result, direct,
                   last_diagnostic_time>>

\* lines 176-180: send_command('com.facebook.buck.cli.Main', ...) and its reply
LaunchBuckSend ==
    /\ pc = "L176"
    /\ \/ /\ Alive(conn)
          /\ \E c \in ReplyCodes :
              /\ c = BusyCode => hist.busy < MaxBusy
              /\ exit_code' = c
              /\ hist' = [hist EXCEPT
                            !.sent_ids = Append(@, build_id),
                            !.sent_to = conn,
                            !.last_reply = c,
                            !.busy = IF c = BusyCode THEN @ + 1 ELSE @,
                            !.ng_site = "send", !.ng_out = "ok"]
          /\ pc' = "L181"
          /\ UNCHANGED <<conn, raised>>
       \/ /\ \E e \in {"CONNECTION_BROKEN", "UNEXPECTED_CHUNKTYPE", "OTHER"} :
              /\ Alive(conn) \/ e = "CONNECTION_BROKEN"
              /\ hist' = [hist EXCEPT !.ng_site = "send", !.ng_out = e]
          /\ pc' = "raised"
          /\ raised' = "NailgunException"
          /\ conn' = 0
          /\ UNCHANGED exit_code
    /\ UNCHANGED <<shared, ret, inputs, running_version, running, proc,
                   poll_i, launch_rc, build_id, result, direct,
                   last_diagnostic_time>>

\* line 182: str(uuid.uuid4()), a value no earlier attempt carried
Uuid4(used) == Len(used) + 1

\* Mutant: the retry keeps the build id of the attempt before it.
NextBuildId_Kept(code, id, used) == id

\* line 182
NextBuildId(code, id, used) == IF code = BusyCode THEN Uuid4(used) ELSE id

\* line 30, in seconds
DAEMON_BUSY_MESSAGE_SECONDS == 1

\* DAEMON_BUSY_MESSAGE_SECONDS in clock ticks
BusyWindow == DAEMON_BUSY_MESSAGE_SECONDS * TicksPerSecond

\* The first reading of time.time(): seconds since 1970, far from 0.
Epoch == BusyWindow + 1

\* The advance of time.time(), in ticks, from one busy reply to the next:
\* time.sleep(1) lies between them, a signal handler may cut it short, and
\* the wall clock may be set.
AnyTicks == 0..MaxClockStep

\* line 183: time.time() after the readings taken so far
ClockReadings(times) ==
    IF times = <<>> THEN {Epoch}
    ELSE { times[Len(times)] + d : d \in AnyTicks }

\* Mutant: the diagnostic is printed at every busy reply.
ShouldPrint_Always(now, last) == TRUE

\* line 184
ShouldPrint(now, last) == now - last > BusyWindow

\* Mutant: the loop ends after its first reply.
LoopAgain_Never(code) == FALSE

\* line 171: while exit_code == 2
LoopAgain(code) == code = BusyCode

\* lines 181-187: after a busy reply a new build id is set, the clock is
\* read and the diagnostic printed, and the launcher goes to sleep with the
\* connection still open; after any other reply the with block ends (the
\* connection is closed) and the loop condition is tested
LaunchBuckAfterReply ==
    /\ pc = "L181"
    /\ build_id' = NextBuildId(exit_code, build_id, hist.sent_ids)
    /\ IF exit_code = BusyCode
       THEN /\ \E now \in ClockReadings(hist.busy_times) :
                LET print == ShouldPrint(now, last_diagnostic_time) IN
                /\ last_diagnostic_time' =
                      IF print THEN now ELSE last_diagnostic_time
                /\ hist' = [hist EXCEPT
                              !.mints = @ + 1,
                              !.busy_times = Append(@, now),
                              !.diag_times =
                                  IF print THEN Append(@, now) ELSE @]
            /\ pc' = "L188"
            /\ conn' = conn
       ELSE /\ UNCHANGED <<last_diagnostic_time, hist>>
            /\ conn' = 0
            /\ pc' = IF LoopAgain(exit_code) THEN "L172" ELSE "L189"
    /\ UNCHANGED <<shared, ret, inputs, running_version, running, proc,
                   poll_i, launch_rc, exit_code, result, raised, direct>>

\* line 188 and the end of the with block: time.sleep(1) returns, the
\* connection is closed and the loop condition is tested
LaunchBuckSleep ==
    /\ pc = "L188"
    /\ conn' = 0
    /\ pc' = IF LoopAgain(exit_code) THEN "L172" ELSE "L189"
    /\ UNCHANGED <<shared, ret, inputs, running_version, running, proc,
                   poll_i, launch_rc, exit_code, build_id, result, raised,
                   direct, last_diagnostic_time, hist>>

\* line 189
LaunchBuckReturn ==
    /\ pc = "L189"
    /\ result' = exit_code
    /\ pc' = "done"
    /\ UNCHANGED <<shared, ret, inputs, running_version, running, proc,
                   poll_i, launch_rc, exit_code, conn, build_id, raised,
                   direct, last_diagnostic_time, hist>>

\* lines 192-212: the build tool as a direct subprocess (java must be found)
LaunchBuckDirect ==
    /\ pc = "L192"
    /\ \/ /\ \E c \in ReplyCodes : result' = c
          /\ direct' = TRUE
          /\ pc' = "done"
          /\ raised' = raised
       \/ /\ pc' = "raised"
          /\ raised' = "BuckToolException"
          /\ UNCHANGED <<result, direct>>
    /\ UNCHANGED <<shared, ret, inputs, running_version, running, proc,
                   poll_i, launch_rc, exit_code, conn, build_id,
                   last_diagnostic_time, hist>>

\* ------------------------------------------------------------ specification
Next ==
    \/ CallerDone
    \/ StartLaunchBuck
    \/ StartLaunchBuckd
    \/ StartKillBuckd
    \/ KillCheckSocket
    \/ KillConnect
    \/ KillSendStop
    \/ KillCleanUp
    \/ ProbeCheckSocket
    \/ ProbeConnect
    \/ ProbeSendStats
    \/ LaunchSetup
    \/ LaunchUnlink
    \/ LaunchSpawn
    \/ LaunchSaveVersion
    \/ LaunchPollSocket
    \/ LaunchPollProcess
    \/ LaunchBuckClean
    \/ LaunchBuckReadVersion
    \/ LaunchBuckReconcile
    \/ LaunchBuckProbe
    \/ LaunchBuckLaunch
    \/ LaunchBuckTryDaemon
    \/ LaunchBuckChoosePath
    \/ LaunchBuckConnect
    \/ LaunchBuckSend
    \/ LaunchBuckAfterReply
    \/ LaunchBuckSleep
    \/ LaunchBuckReturn
    \/ LaunchBuckDirect
    \/ DaemonBind
    \/ DaemonExit

Spec == Init /\ [][Next]_vars

\* ------------------------------------------- the busy loop on its own
\* launch_buck of a build command has found a daemon running (line 166,
\* watchman not installed) and is about to test the socket file.
BusyInit ==
    /\ sockFile = TRUE
    /\ stamp \in Versions
    /\ tmp_dir = TRUE
    /\ daemons = [d \in DaemonIds |->
                    IF d = 1
                    THEN [status |-> "listening", ver |-> stamp, code |-> None]
                    ELSE NoDaemon]
    /\ pc = "L167"
    /\ op = "launch_buck"
    /\ command = "build"
    /\ is_help = FALSE
    /\ use_buckd = TRUE
    /\ has_watchman = FALSE
    /\ uid \in Versions
    /\ ret = "L167"
    /\ running_version = NoVersion
    /\ running = TRUE
    /\ proc = 0
    /\ poll_i = 0
    /\ launch_rc = None
    /\ exit_code = None
    /\ conn = 0
    /\ build_id = 0
    /\ result = None
    /\ raised = ""
    /\ direct = FALSE
    /\ last_diagnostic_time = 0
    /\ hist = [NoHist EXCEPT !.probes = 1, !.ng_site = "probe",
                             !.ng_out = "ok", !.probe_sock = TRUE,
                             !.stale0 = StaleDaemonOnly(uid)]
    /\ sys_argv = <<"buck">>
    /\ command_line = NoArgs

BusyNext ==
    \/ LaunchBuckChoosePath
    \/ LaunchBuckConnect
    \/ LaunchBuckSend
    \/ LaunchBuckAfterReply
    \/ LaunchBuckSleep
    \/ LaunchBuckReturn
    \/ DaemonExit

\* The launcher is a running process: a step of straight-line code that can
\* be taken is taken (the end of the with block, the return statement).
BusySpec ==
    /\ BusyInit
    /\ [][BusyNext]_vars
    /\ WF_vars(LaunchBuckAfterReply)
    /\ WF_vars(LaunchBuckSleep)
    /\ WF_vars(LaunchBuckReturn)

\* ---------------------------------------------- launch_buckd on its own
\* A caller runs launch_buckd() once; a socket file and a stamp of an
\* earlier daemon may be left over.
WaitInit ==
    /\ sockFile \in BOOLEAN
    /\ stamp \in {NoVersion, "v2"}
    /\ tmp_dir = sockFile
    /\ daemons = [d \in DaemonIds |-> NoDaemon]
    /\ pc = "B251"
    /\ op = "launch_buckd"
    /\ command = NoCommand
    /\ is_help = TRUE
    /\ use_buckd = TRUE
    /\ has_watchman \in BOOLEAN
    /\ uid = "v1"
    /\ FreshLocals
    /\ hist = [NoHist EXCEPT !.launches = 1, !.launch_uid = uid]
    /\ sys_argv = <<"buck">>
    /\ command_line = NoArgs

WaitNext ==
    \/ LaunchSetup
    \/ LaunchUnlink
    \/ LaunchSpawn
    \/ LaunchSaveVersion
    \/ LaunchPollSocketFull
    \/ LaunchPollProcess
    \/ DaemonBind
    \/ DaemonExit

\* The wait loop and the exit check are straight-line code of a running
\* process: each of their steps is taken.
WaitSpec ==
    /\ WaitInit
    /\ [][WaitNext]_vars
    /\ WF_vars(LaunchPollSocketFull)
    /\ WF_vars(LaunchPollProcess)

\* ------------------------------------------- the command line on its own
\* A command line of Argvs is about to be parsed.
HelpInit ==
    /\ sockFile = FALSE
    /\ stamp = NoVersion
    /\ tmp_dir = FALSE
    /\ daemons = [d \in DaemonIds |-> NoDaemon]
    /\ pc = "A68"
    /\ op = "CommandLineArgs"
    /\ command = NoCommand
    /\ is_help = FALSE
    /\ use_buckd = TRUE
    /\ has_watchman = TRUE
    /\ uid = "v1"
    /\ FreshLocals
    /\ hist = NoHist
    /\ sys_argv \in Argvs
    /\ command_line = NoArgs

\* line 102: self._command_line = CommandLineArgs(sys.argv)
ParseCommandLine ==
    /\ pc = "A68"
    /\ command_line' = CommandLineArgs(sys_argv)
    /\ pc' = "A86"
    /\ UNCHANGED <<shared, ret, op, command, is_help, use_buckd, has_watchman,
                   uid, sys_argv, locals, hist>>

\* lines 138, 144: self._command_line.command and .is_help() are read
AskIsHelp ==
    /\ pc = "A86"
    /\ command' = command_line.command
    /\ is_help' = IsHelp(command_line)
    /\ pc' = "answered"
    /\ UNCHANGED <<shared, ret, op, use_buckd, has_watchman, uid, parsed,
                   locals, hist>>

HelpNext ==
    \/ ParseCommandLine
    \/ AskIsHelp

HelpSpec == HelpInit /\ [][HelpNext]_vars

\* ------------------------------------------------------------------ claims
InLaunchBuckd == pc \in {"B251", "B311", "B319", "B327", "B330", "B334"}
Reconciling ==
    /\ op = "launch_buck"
    /\ UsesDaemonSetup(is_help, use_buckd, has_watchman)
    /\ running_version # uid
LiveDaemons == { d \in DaemonIds : Alive(d) }

\* C1 (as stated): in a non-help invocation with daemon usage enabled and
\* watchman present whose recorded version differs from the current uid,
\* launch_buckd is preceded by exactly one call of kill_buckd, which has
\* completed and left the socket file absent.
C1_ExactlyOneKill ==
    (Reconciling /\ InLaunchBuckd) =>
        /\ hist.kills = 1
        /\ hist.kills_done = hist.kills
        /\ ~hist.sock_after_kill

\* C1 (amended): launch_buckd is preceded by one completed kill_buckd for
\* every command but clean and by two for clean (line 139 and line 150), and
\* the last one has completed with the socket file absent before the unlink.
C1_KillBeforeLaunch ==
    (Reconciling /\ InLaunchBuckd) =>
        /\ hist.kills = (IF CleanKills(command, is_help) THEN 2 ELSE 1)
        /\ hist.kills_done = hist.kills
        /\ ~hist.sock_after_kill

C1_Witness ==
    /\ Reconciling
    /\ pc = "B311"
    /\ running_version \in Versions
    /\ hist.kills_done = 1

\* C2: whenever launch_buck sends the command to the daemon, the version
\* recorded for the daemon equals the current version uid.
C2_NoStaleDaemonServes ==
    (op = "launch_buck" /\ pc = "L176") => stamp = uid

\* C3: N busy replies followed by a non-busy one give N + 1 connections, each
\* closed before the next is opened, N minted build ids, every attempt's id
\* different from the one before, and the final reply as the result.
C3_BusyRetry ==
    /\ (op = "launch_buck" /\ pc = "L172") =>
          /\ hist.conns = hist.busy
          /\ hist.mints = hist.busy
          /\ conn = 0
    /\ (op = "launch_buck" /\ pc = "done" /\ hist.conns > 0) =>
          /\ hist.conns = hist.busy + 1
          /\ hist.mints = hist.busy
          /\ ~hist.overlap
          /\ conn = 0
          /\ Len(hist.sent_ids) = hist.busy + 1
          /\ \A k \in 2..Len(hist.sent_ids) :
                hist.sent_ids[k] # hist.sent_ids[k - 1]
          /\ result = hist.last_reply
          /\ result # BusyCode

C3_Witness ==
    /\ op = "launch_buck"
    /\ pc = "done"
    /\ hist.busy = 2
    /\ hist.conns = 3
    /\ result = 0

CleanScenario ==
    /\ op = "launch_buck"
    /\ command = "clean"
    /\ ~is_help
    /\ use_buckd
    /\ has_watchman
    /\ hist.stale0
    /\ pc = "done"

\* C4 (as stated): clean against a daemon of another version calls kill_buckd
\* once and launch_buckd once with the current uid, forwards the command to
\* the new daemon and returns the exit code it reports.
C4_KillOnce ==
    CleanScenario =>
        /\ hist.kills = 1
        /\ hist.launches = 1
        /\ hist.launch_uid = uid
        /\ hist.conns >= 1
        /\ hist.sent_to = proc
        /\ result = hist.last_reply

\* C4 (amended): kill_buckd is called twice, launch_buckd once with the
\* current uid; if the new daemon answers the probe of line 166 the command
\* is forwarded to it and its exit code returned, else the command runs as
\* a direct subprocess.
C4_CleanScenario ==
    CleanScenario =>
        /\ hist.kills = 2
        /\ hist.kills_done = 2
        /\ hist.launches = 1
        /\ hist.launch_uid = uid
        /\ hist.conns >= 1 =>
              /\ hist.sent_to = proc
              /\ result = hist.last_reply
              /\ ~direct
        /\ hist.conns = 0 => direct

C4_Witness ==
    /\ CleanScenario
    /\ hist.conns = 1
    /\ hist.sent_to = proc
    /\ result = 1
    /\ stamp = uid

\* C5: a help invocation performs no kill, no launch and no connection
\* attempt of any kind, and is served by the direct path.
C5_HelpTouchesNoDaemon ==
    (op = "launch_buck" /\ command = NoCommand) =>
        /\ hist.kills = 0
        /\ hist.launches = 0
        /\ hist.probes = 0
        /\ hist.conns = 0
        /\ pc = "done" => direct

\* C6: with NO_BUCKD set or watchman absent a non-help invocation launches no
\* daemon, opens no connection, and runs the direct subprocess.
C6_NoDaemonOrchestration ==
    (op = "launch_buck" /\ ~is_help /\ (~use_buckd \/ ~has_watchman)) =>
        /\ hist.launches = 0
        /\ hist.conns = 0
        /\ pc = "done" => direct

\* C7 (as stated): the stamp is not updated for a newly spawned daemon while
\* the socket is unconfirmed and the wait has not run out.
C7_StampAfterSocket ==
    (pc = "B330" /\ proc # 0 /\ stamp = uid) =>
        (sockFile \/ poll_i = MaxSocketPolls)

\* C7 (amended): the stamp is written right after the spawn, before the
\* socket wait makes its first check, whether or not the socket exists.
C7_StampBeforeWait ==
    (pc = "B330" /\ poll_i = 0) => (proc # 0 /\ stamp = uid)

C7_Witness ==
    /\ pc = "B330"
    /\ poll_i = 0
    /\ ~sockFile
    /\ daemons[proc].status = "starting"
    /\ stamp = uid

\* C8: launch_buckd returns the exit code of a daemon that has exited when
\* process.poll() runs and 0 if it has not; the stamp is written before the
\* socket wait, which is over before the exit status is checked.
C8_LaunchReturnCode ==
    /\ pc \in {"B330", "B334"} => (proc # 0 /\ stamp = uid)
    /\ pc = "B334" => poll_i = MaxSocketPolls
    /\ launch_rc # None =>
          /\ proc # 0
          /\ daemons[proc].status = "dead" => launch_rc = daemons[proc].code
          /\ daemons[proc].status # "dead" => launch_rc = 0
    /\ (op = "launch_buckd" /\ pc = "done") => result = launch_rc

C8_Witness ==
    /\ op = "launch_buckd"
    /\ pc = "done"
    /\ daemons[proc].status = "dead"
    /\ daemons[proc].code = 17
    /\ result = 17
    /\ stamp = uid

\* C9: when the daemon launch_buck launched has exited with code c at once,
\* the invocation reports c and does not run the command by other means.
C9_LaunchFailureSurfaced ==
    (op = "launch_buck" /\ pc = "done" /\ launch_rc # None /\ launch_rc # 0) =>
        /\ result = launch_rc
        /\ ~direct
        /\ hist.conns = 0
        /\ hist.launches = 1

\* C10: at most one live daemon process exists for the socket path (a daemon
\* is spawned only when no other daemon of the project root is alive).
C10_OneLiveDaemon == Cardinality(LiveDaemons) <= 1

ToleratedKinds == {"CONNECT_FAILED", "CONNECTION_BROKEN", "UNEXPECTED_CHUNKTYPE"}
NailgunRaised == pc = "raised" /\ raised = "NailgunException"

\* C11: wherever launch_buck talks to the daemon, a refused, broken or
\* unexpected-frame error does not fail the client, and any other connection
\* error is raised to the caller.
C11_TolerantEverywhere ==
    /\ (op = "launch_buck" /\ hist.ng_out \in ToleratedKinds) => ~NailgunRaised
    /\ (op = "launch_buck" /\ hist.ng_out = "OTHER") => pc = "raised"

AfterProbe == pc \in {"L153", "L167"}

\* C12: _is_buckd_running returns true iff the socket file exists and ng-stats
\* succeeds, returns false without a connection attempt when the file is
\* absent, returns false on CONNECT_FAILED and raises every other
\* NailgunException.
C12_IsBuckdRunning ==
    /\ AfterProbe =>
          /\ hist.ng_site = "probe"
          /\ running <=> (hist.probe_sock /\ hist.ng_out = "ok")
          /\ ~hist.probe_sock => hist.ng_out = ""
          /\ (hist.probe_sock /\ ~running) => hist.ng_out = "CONNECT_FAILED"
    /\ (hist.ng_site = "probe" /\ NailgunRaised) =>
          hist.ng_out \in {"CONNECTION_BROKEN", "UNEXPECTED_CHUNKTYPE", "OTHER"}
    /\ (hist.ng_site = "probe"
           /\ hist.ng_out \in {"CONNECTION_BROKEN", "UNEXPECTED_CHUNKTYPE", "OTHER"})
          => NailgunRaised

C12_Witness ==
    /\ AfterProbe
    /\ hist.probe_sock
    /\ hist.ng_out = "CONNECT_FAILED"
    /\ ~running
    /\ hist.probes = 1

\* C13 (as stated): an UNEXPECTED_CHUNKTYPE reply to the liveness probe makes
\* the probe report "not running" and is not raised to the user.
C13_ProbeUnexpectedFrame ==
    (hist.ng_site = "probe" /\ hist.ng_out = "UNEXPECTED_CHUNKTYPE") =>
        (~NailgunRaised /\ ~running)

\* C13 (amended): the probe raises UNEXPECTED_CHUNKTYPE again, which ends
\* launch_buck; launch_buck relaunches only after a probe that found the
\* socket file absent or got CONNECT_FAILED.
C13_ProbeUnexpectedRaises ==
    /\ (hist.ng_site = "probe" /\ hist.ng_out = "UNEXPECTED_CHUNKTYPE") =>
          NailgunRaised
    /\ (op = "launch_buck" /\ pc = "B251") =>
          /\ ~running
          /\ hist.ng_site = "probe"
          /\ hist.ng_out \in {"", "CONNECT_FAILED"}

C13_Witness ==
    /\ op = "launch_buck"
    /\ hist.ng_site = "probe"
    /\ hist.ng_out = "UNEXPECTED_CHUNKTYPE"
    /\ NailgunRaised
    /\ hist.launches = 0

KillRunning == hist.kills > hist.kills_done

\* C14: kill_buckd called with no daemon listening (socket file absent, or
\* present and the connection refused) raises nothing and completes its
\* clean-up; every completed kill_buckd, a repeated one included, leaves the
\* socket file and the stamp absent.
C14_KillIdempotent ==
    /\ (KillRunning /\ pc \in {"K348", "K349", "K358", "raised"}
           /\ hist.kill_absent) =>
          /\ pc # "raised"
          /\ hist.ng_out \in {"", "CONNECT_FAILED"}
    /\ hist.kills_done >= 1 =>
          /\ ~hist.sock_after_kill
          /\ hist.stamp_after_kill = NoVersion
    /\ (~KillRunning /\ hist.kills_done >= 1 /\ pc \in {"L141", "L152", "done"}
           /\ op \in {"launch_buck", "kill_buckd"} /\ hist.launches = 0) =>
          stamp = NoVersion

C14_Witness ==
    /\ op = "launch_buck"
    /\ pc = "L152"
    /\ hist.kills_done = 2
    /\ hist.kill_absent
    /\ ~sockFile
    /\ stamp = NoVersion

BusyReplies == DOMAIN hist.busy_times
Emissions == DOMAIN hist.diag_times

\* C15: within one invocation any two emissions of the "Daemon is busy"
\* diagnostic are more than DAEMON_BUSY_MESSAGE_SECONDS apart, each emission
\* is at a busy reply, the first busy reply emits, and busy replies that all
\* lie within one window produce a single message.
C15_DiagnosticRateLimited ==
    /\ \A i, j \in Emissions :
          i < j => hist.diag_times[j] - hist.diag_times[i] > BusyWindow
    /\ \A i \in Emissions :
          \E k \in BusyReplies : hist.busy_times[k] = hist.diag_times[i]
    /\ pc # "L181" => Len(hist.busy_times) = hist.busy
    /\ hist.busy_times # <<>> =>
          /\ hist.diag_times # <<>>
          /\ hist.diag_times[1] = hist.busy_times[1]
          /\ last_diagnostic_time = hist.diag_times[Len(hist.diag_times)]
    /\ (/\ hist.busy_times # <<>>
        /\ \A i, j \in BusyReplies :
              hist.busy_times[j] - hist.busy_times[i] <= BusyWindow) =>
          Len(hist.diag_times) = 1

C15_Witness ==
    /\ op = "launch_buck"
    /\ Len(hist.busy_times) = 2
    /\ hist.busy_times[2] - hist.busy_times[1] = BusyWindow
    /\ Len(hist.diag_times) = 1
    /\ pc = "done"
    /\ result = 0

NonHelpClean == command = "clean" /\ ~is_help
NothingBeforeKill ==
    /\ hist.probes = 0
    /\ hist.launches = 0
    /\ hist.conns = 0
    /\ running_version = NoVersion
    /\ ~direct

\* C16: launch_buck of a clean command that is not a help invocation calls
\* kill_buckd before the version query, any probe, any launch and any command
\* exchange, whatever NO_BUCKD and watchman are; for clean --help and for any
\* other command no kill precedes the version query.
C16_CleanKillsFirst ==
    op = "launch_buck" =>
        /\ (pc # "L138" /\ NonHelpClean) => hist.kills >= 1
        /\ (ret = "L141" /\ KillRunning) =>
              /\ hist.kills = 1
              /\ NonHelpClean
              /\ NothingBeforeKill
        /\ pc = "L141" =>
              /\ hist.kills = (IF NonHelpClean THEN 1 ELSE 0)
              /\ hist.kills_done = hist.kills
              /\ NothingBeforeKill
        /\ (~NothingBeforeKill /\ NonHelpClean) => hist.kills_done >= 1

C16_Witness ==
    /\ op = "launch_buck"
    /\ pc = "L141"
    /\ NonHelpClean
    /\ ~use_buckd
    /\ ~has_watchman
    /\ hist.kills_done = 1
    /\ hist.ng_out = "ok"

\* C17: launch_buckd without watchman ends in a BuckToolException at its
\* first step, which leaves the temp directory, the socket file, the stamp
\* and the processes as they were and spawns nothing; the later steps of
\* launch_buckd run only with watchman.
C17_RequiresWatchman ==
    /\ [](pc \in {"B311", "B319", "B327", "B330", "B334"} => has_watchman)
    /\ [][(pc = "B251" /\ ~has_watchman /\ pc' # pc) =>
            /\ pc' = "raised"
            /\ raised' = "BuckToolException"
            /\ UNCHANGED <<shared, proc>>]_vars

C17_Witness ==
    /\ op = "launch_buckd"
    /\ pc = "raised"
    /\ raised = "BuckToolException"
    /\ ~has_watchman
    /\ sockFile
    /\ stamp \in Versions
    /\ proc = 0

Positions == 2..Len(sys_argv)
\* Position in sys_argv of the first token that does not start with "-".
CommandAt(k) ==
    /\ k \in Positions
    /\ ~StartsWithDash(sys_argv[k])
    /\ \A j \in 2..(k - 1) : StartsWithDash(sys_argv[j])
CommandAbsent == \A k \in Positions : StartsWithDash(sys_argv[k])
CommandIsFirstPlainToken ==
    /\ CommandAbsent => command = NoCommand
    /\ \A k \in Positions : CommandAt(k) => command = sys_argv[k]

\* C18 (as stated): is_help() is true exactly when the command is absent or
\* --help is present anywhere on the command line; the command is the first
\* token after argv[0] that does not start with "-".
C18_HelpFlagAnywhere ==
    pc = "answered" =>
        /\ CommandIsFirstPlainToken
        /\ is_help <=>
              \/ CommandAbsent
              \/ \E k \in Positions : sys_argv[k] = "--help"

\* C18 (amended): is_help() is true exactly when the command is absent or
\* --help is present after the command; --help before the command does not
\* make a help invocation.  The command is the first token after argv[0]
\* that does not start with "-".
C18_HelpFlagAfterCommand ==
    pc = "answered" =>
        /\ CommandIsFirstPlainToken
        /\ is_help <=>
              \/ CommandAbsent
              \/ \E k, h \in Positions :
                    CommandAt(k) /\ h > k /\ sys_argv[h] = "--help"

C18_Witness ==
    /\ pc = "answered"
    /\ sys_argv = <<"buck", "--help", "clean">>
    /\ command = "clean"
    /\ ~is_help

ViaDaemon == op = "launch_buck" /\ pc = "done" /\ ~direct

\* C19: the busy-retry loop ends only on a reply other than 2 or an error.
\* After a busy reply the loop connects again and launch_buck has not
\* returned; a return by the daemon path carries the last reply, never 2;
\* and once a reply other than 2 has arrived launch_buck returns that reply.
C19_LoopUntilNotBusy ==
    /\ [](hist.last_reply = BusyCode =>
            pc \in {"L181", "L188", "L172", "L176", "raised"})
    /\ [](ViaDaemon => result = hist.last_reply /\ result # BusyCode)
    /\ [](pc = "L188" => exit_code = BusyCode)
    /\ [][(pc = "L181" /\ exit_code = BusyCode /\ pc' # pc) => pc' = "L188"]_vars
    /\ [][(pc = "L188" /\ pc' # pc) => pc' = "L172"]_vars
    /\ [][(pc = "L181" /\ exit_code # BusyCode /\ pc' # pc) => pc' = "L189"]_vars
    /\ \A c \in ReplyCodes \ {BusyCode} :
          (pc = "L181" /\ exit_code = c) ~> (ViaDaemon /\ result = c)

C19_Witness ==
    /\ ViaDaemon
    /\ hist.busy = MaxBusy
    /\ hist.conns = MaxBusy + 1
    /\ result = 1

\* C20: the socket wait of launch_buckd looks at the socket file at most
\* SocketWaitAttempts times, one iteration at a time, sleeps in exactly the
\* iterations that find the file absent, and then reaches the exit check and
\* returns; a process still alive at the exit check gives 0, with the socket
\* file present or absent.
C20_BoundedSocketWait ==
    /\ [](poll_i <= SocketWaitAttempts)
    /\ [](pc = "B334" => poll_i = SocketWaitAttempts)
    /\ [][(pc = "B330" /\ pc' = "B330" /\ poll_i' # poll_i) =>
            /\ poll_i' = poll_i + 1
            /\ hist'.slept <=> ~sockFile]_vars
    /\ [][(pc = "B330" /\ pc' # pc) =>
            /\ poll_i = SocketWaitAttempts
            /\ pc' = "B334"]_vars
    /\ []((pc = "done" /\ proc # 0 /\ Alive(proc)) => result = 0)
    /\ (pc = "B330") ~> (pc = "done" /\ result = launch_rc)

C20_Witness ==
    /\ op = "launch_buckd"
    /\ pc = "done"
    /\ poll_i = SocketWaitAttempts
    /\ hist.slept
    /\ ~sockFile
    /\ proc # 0
    /\ daemons[proc].status = "starting"
    /\ result = 0

KillFailed == KillRunning /\ pc = "raised"

\* C21: when ng-stop fails with a NailgunException of a code other than
\* CONNECT_FAILED, CONNECTION_BROKEN and UNEXPECTED_CHUNKTYPE, kill_buckd
\* raises BuckToolException without running clean_up_buckd, leaving the
\* socket file, the stamp and the processes as they were; after a tolerated
\* code, an acknowledged ng-stop or an absent socket file its next step is
\* clean_up_buckd, which completes the kill.
C21_KillFailureKeepsState ==
    /\ [](KillFailed =>
            /\ raised = "BuckToolException"
            /\ hist.ng_site = "kill"
            /\ hist.ng_out = "OTHER"
            /\ sockFile)
    /\ [][(pc = "K348" /\ pc' # pc) =>
            /\ pc' \in {"K349", "K358"}
            /\ pc' = "K358" <=> hist'.ng_out = "CONNECT_FAILED"]_vars
    /\ [][(pc = "K349" /\ pc' # pc) =>
            /\ pc' \in {"K358", "raised"}
            /\ pc' = "raised" <=> hist'.ng_out \notin ToleratedKinds \cup {"ok"}
            /\ pc' = "raised" =>
                  /\ raised' = "BuckToolException"
                  /\ hist'.kills_done = hist.kills_done
                  /\ UNCHANGED shared]_vars
    /\ [][(pc = "K345" /\ ~sockFile /\ pc' # pc) => pc' = "K358"]_vars
    /\ [][(pc = "K358" /\ pc' # pc) =>
            /\ hist'.kills_done = hist.kills_done + 1
            /\ ~sockFile'
            /\ stamp' = NoVersion]_vars

C21_Witness ==
    /\ op = "kill_buckd"
    /\ KillFailed
    /\ raised = "BuckToolException"
    /\ hist.ng_out = "OTHER"
    /\ hist.kills_done = 0
    /\ sockFile
    /\ stamp \in Versions
====
